---- MODULE Spec2Model ----
(***************************************************************************)
(* Plan execution and checkpointing engine of the sidecar webserver        *)
(* (sidecar/src/webserver/plan.rs).  Each orchestration task (create,      *)
(* append, execute-until, diagnostics-to-steps) is a process whose steps   *)
(* are the stretches of code between two awaits.  The plan snapshot on     *)
(* disk is the only shared state.                                          *)
(*                                                                         *)
(* Rust indices are 0-based and are kept 0-based here: the step with index *)
(* i is steps[i + 1].  Option<T> is a sequence of length 0 (None) or 1     *)
(* (Some(x)).                                                              *)
(***************************************************************************)
EXTENDS Integers, Sequences, FiniteSets, TLC

\* ------------------------------------------------------------------ bounds
\* Longest steps sequence a plan grows to.
MaxSteps == 3
\* Most steps one call of the planning capability returns.
MaxNewSteps == 2
\* Requests (handler calls) in one behaviour.
MaxRequests == 4
\* Most diagnostic records one fetch returns: in a behaviour of Spec, and in
\* a behaviour of DiagnosticsSpec.
MaxFetched == 1
MaxDiagnostics == 4
\* Requests in a behaviour that follows the consumer of the stream.
MaxStreams == 1
\* Longest file_content_map of a user context before it is merged.
MaxFiles == 2

\* Orchestration tasks (tokio::spawn); Spec uses the first only (requests
\* serialized by the invoker), task 2 is for concurrent requests.
Tasks == {1, 2}
\* execute_until is a usize of the caller's choice: it may exceed the plan.
Targets == 0 .. MaxSteps

Min(a, b) == IF a <= b THEN a ELSE b
Max(a, b) == IF a >= b THEN a ELSE b

\* ------------------------------------------------------------------ Option
None == <<>>
Some(x) == <<x>>
is_some(o) == o # None
unwrap(o) == o[1]
unwrap_or_default(o) == IF o = None THEN 0 ELSE o[1]

\* The index execution resumes at after checkpoint c: c + 1, 0 for None.
ResumeIndex(c) == IF c = None THEN 0 ELSE unwrap(c) + 1

\* ------------------------------------------------------------------ state
VARIABLES
    store,       \* Option<Plan>: the snapshot at plan_storage_path
    task,        \* per task: its position (pc), locals and what it did so far
    requests,    \* number of handler calls so far
    executions,  \* per step index: successful execute_step calls on the stored plan's steps
    storage,     \* the plans directory under the index directory, and the calls of
                 \* check_plan_storage_path
    thread       \* a followup_chat request: the thread's last user context, the
                 \* request's user context and the merged one

vars == <<store, task, requests, executions, storage, thread>>

\* Plan { steps, checkpoint }; a step is tagged with the request that generated it.
Plan(steps, checkpoint) == [steps |-> steps, checkpoint |-> checkpoint]

\* ------------------------------------------------------------------ events
\* The ConversationMessage::answer_update payloads sent on agent_sender.
EvLoadFailed == <<"failed to load plan">>
EvGeneratingSteps == <<"Generating new steps from the context">>
EvPlanDebug == <<"plan debug view">>
EvFailedToAdd == <<"Failed to add new steps to the plan">>
EvGeneratingPlan == <<"Generating plan">>
EvFinishedGenerating == <<"finished generating plan">>
EvFailedToGenerate == <<"Failed to generate plan">>
EvAlreadyExecuted(idx, checkpoint) == <<"Already executed step", idx, checkpoint>>
EvFinished(idx) == <<"Finished executing until", idx>>
EvErrored(idx) == <<"Errored out while executing step", idx>>

\* The frame of the stream the handler returns: the session start and the
\* terminal marker, both carrying the plan id.
PlanId == "plan-id"
EvInit == <<"session_id", PlanId>>
EvDone == <<"[CODESTORY_DONE]", PlanId>>

\* The channel carries anyhow::Result<ConversationMessage>: the events above
\* are sent as Ok(event); an Err(e) is the message below.
Err(e) == <<"Err", e>>
IsErr(message) == message[1] = "Err"

\* Mutant of send: a failed send ends the task (the error unwinds).
send_unwinds(tk, ev) ==
    IF tk.stream = "dropped"
    THEN [tk EXCEPT !.events = Append(@, ev), !.sendErrs = @ + 1, !.pc = "done"]
    ELSE [tk EXCEPT !.events = Append(@, ev), !.queue = Append(@, ev)]

\* let _ = agent_sender.send(Ok(..)) on the unbounded channel: the message is
\* queued, or the send fails because the receiver is gone; the result of the
\* send is dropped.  events keeps every message the task sent.
send(tk, ev) ==
    IF tk.stream = "dropped"
    THEN [tk EXCEPT !.events = Append(@, ev), !.sendErrs = @ + 1]
    ELSE [tk EXCEPT !.events = Append(@, ev), !.queue = Append(@, ev)]

\* ------------------------------------------------------------------ tasks
IdleTask ==
    [pc |-> "idle", op |-> "none", execute_until |-> 0, plan |-> None, idx |-> 0,
     events |-> <<>>, loaded |-> "pending", loadedCheckpoint |-> None,
     attempted |-> <<>>, saveCalls |-> 0, saveErrs |-> 0, lastSaveOk |-> TRUE,
     externalCalls |-> 0, failedAt |-> None,
     returned |-> "pending", generated |-> <<>>,
     fetch |-> "pending", lspDiagnostics |-> <<>>, diagnosticMap |-> <<>>,
     queue |-> <<>>, stream |-> "none", delivered |-> <<>>, sendErrs |-> 0,
     context |-> {},
     prev |-> [op |-> "none", execute_until |-> 0, clean |-> FALSE, failedAt |-> None]]

\* What the next request remembers of the call that ran before it.
Summary(tk) ==
    [op |-> tk.op, execute_until |-> tk.execute_until,
     clean |-> (tk.pc = "done" /\ tk.loaded = "ok" /\ tk.failedAt = None /\ tk.saveErrs = 0),
     failedAt |-> tk.failedAt]

SpawnTask(old, op, k, pc) ==
    [IdleTask EXCEPT !.pc = pc, !.op = op, !.execute_until = k, !.stream = "init",
                     !.prev = Summary(old)]

Free(t) == task[t].pc \in {"idle", "done"}

Spawn(t, op, k, pc) ==
    /\ Free(t)
    /\ requests < MaxRequests
    /\ requests' = requests + 1
    /\ task' = [task EXCEPT ![t] = SpawnTask(task[t], op, k, pc)]
    /\ UNCHANGED <<store, executions, storage, thread>>

\* ------------------------------------------------------------------ check_plan_storage_path
\* The plan ids callers ask for, and the callers (concurrent requests).
PlanIds == {PlanId, "other-id"}
Callers == {1, 2}
IndexDir == "index_dir"

IdleCall ==
    [pc |-> "idle", plan_id |-> PlanId, path |-> <<>>, found |-> "pending", error |-> "none"]

\* The plans directory exists, with the snapshot files in entries.
PlansDir(entries) == [plans |-> "dir", entries |-> entries]
NoPlansDir == [plans |-> "absent", entries |-> {}]

\* The handlers are given a path check_plan_storage_path returned: the
\* directory of the plan's snapshot exists.
StorageOfThePlan ==
    [dir |-> PlansDir({}), call |-> [c \in Callers |-> IdleCall]]

\* PathBuf::join
join(path, component) == Append(path, component)

\* config.index_dir.join("plans").join(plan_id)
PlanPath(plan_id) == join(join(<<IndexDir>>, "plans"), plan_id)

\* Mutant of MetadataIsErr: the test inverted.
MetadataIsErr_inverted(dir) == dir.plans # "absent"

\* tokio::fs::metadata(&plan_path).await.is_err()
MetadataIsErr(dir) == dir.plans = "absent"

\* tokio::fs::create_dir: creates the directory, empty; fails when something
\* is at the path already, and for any other reason of the file system.
CreateDirOutcomes(dir) == IF dir.plans = "absent" THEN {"Ok", "IoError"} ELSE {"IoError"}

check_plan_storage_path(c, plan_id) ==
    /\ storage.call[c].pc \in {"idle", "returned"}
    /\ storage' = [storage EXCEPT !.call[c] = [IdleCall EXCEPT !.pc = "metadata",
                                                               !.plan_id = plan_id]]
    /\ UNCHANGED <<store, task, requests, executions, thread>>

metadata_returns(c) ==
    /\ storage.call[c].pc = "metadata"
    /\ LET call == storage.call[c]
       IN  storage' = [storage EXCEPT !.call[c] =
                         IF MetadataIsErr(storage.dir)
                         THEN [call EXCEPT !.pc = "create_dir", !.found = "absent"]
                         ELSE [call EXCEPT !.pc = "returned", !.found = "present",
                                           !.path = PlanPath(call.plan_id)]]
    /\ UNCHANGED <<store, task, requests, executions, thread>>

\* .expect("directory creation to not fail"): an error ends the caller.
create_dir_returns(c, outcome) ==
    /\ storage.call[c].pc = "create_dir"
    /\ outcome \in CreateDirOutcomes(storage.dir)
    /\ LET call == storage.call[c]
       IN  storage' = IF outcome = "Ok"
                      THEN [storage EXCEPT !.dir = PlansDir({}),
                                           !.call[c] = [call EXCEPT !.pc = "returned",
                                                                    !.path = PlanPath(call.plan_id)]]
                      ELSE [storage EXCEPT !.call[c] =
                              [call EXCEPT !.pc = "panicked",
                                           !.error = IF storage.dir.plans = "dir"
                                                     THEN "AlreadyExists" ELSE "Other"]]
    /\ UNCHANGED <<store, task, requests, executions, thread>>

\* No step of the stored plan has been executed.
NoExecutions == [i \in 0 .. MaxSteps - 1 |-> 0]

\* Before the first request: no snapshot at the plan's path, no task spawned.
\* ------------------------------------------------------------------ UserContext
\* FileContentValue { file_path, file_content, language } and
\* UserContext { variables, file_content_map } (agent.rs).  The content of an
\* entry records which context supplied it and at which position.
FilePaths == {"a.rs", "b.rs"}
FileContentValue(file_path, file_content) ==
    [file_path |-> file_path, file_content |-> file_content]
UserContext(variables, file_content_map) ==
    [variables |-> variables, file_content_map |-> file_content_map]
PathLists == UNION {[1 .. n -> FilePaths] : n \in 0 .. MaxFiles}
\* The user contexts a client (origin) can send.
UserContexts(origin) ==
    {UserContext(variables,
                 [i \in 1 .. Len(paths) |-> FileContentValue(paths[i], <<origin, i>>)]) :
        variables \in {<<>>, <<origin>>}, paths \in PathLists}

\* UserContext::merge_from_previous(self, previous): the variables are
\* extended by the previous ones; file_content_set holds the paths of self
\* (it is not extended while pushing), and each previous entry whose path is
\* not in it is pushed.
merge_from_previous(self, previous) ==
    IF previous = None
    THEN self
    ELSE LET previous_user_context == unwrap(previous)
             file_content_set ==
                 {self.file_content_map[i].file_path : i \in DOMAIN self.file_content_map}
             IsMissing(file_content) == file_content.file_path \notin file_content_set
         IN  UserContext(self.variables \o previous_user_context.variables,
                         self.file_content_map \o
                             SelectSeq(previous_user_context.file_content_map, IsMissing))

NoThread == [pc |-> "idle", previous |-> None, user_context |-> UserContext(<<>>, <<>>),
             merged |-> None]

\* followup_chat: user_context.merge_from_previous(last_user_context).
followup_chat ==
    /\ thread.pc = "request"
    /\ thread' = [thread EXCEPT !.pc = "merged",
                                !.merged = Some(merge_from_previous(thread.user_context,
                                                                    thread.previous))]
    /\ UNCHANGED <<store, task, requests, executions, storage>>

Init ==
    /\ store = None
    /\ task = [t \in Tasks |-> IdleTask]
    /\ requests = 0
    /\ storage = StorageOfThePlan
    /\ thread = NoThread
    /\ executions = NoExecutions

\* ------------------------------------------------------------------ Plan and PlanService
\* PlanService::load_plan: Err (None here) when there is no snapshot at the path.
load_plan(snapshot) == snapshot

\* PlanService::save_plan returns Ok | IoError; every caller drops the result
\* (let _ = ...).  A failed save leaves the snapshot as it was.
SaveOutcomes == {"Ok", "IoError"}
save_plan(snapshot, plan, outcome) == IF outcome = "Ok" THEN Some(plan) ELSE snapshot

\* Plan::increment_checkpoint: None -> Some(0), Some(c) -> Some(c + 1).
increment_checkpoint(checkpoint) ==
    IF checkpoint = None THEN Some(0) ELSE Some(unwrap(checkpoint) + 1)

\* PlanService::append_steps: the plan with the new steps after the old ones,
\* the checkpoint as it was.
append_steps(plan, new_steps) == Plan(plan.steps \o new_steps, plan.checkpoint)

\* The steps one planning call returns for request number r.
GeneratedSteps(n, r) == [i \in 1 .. n |-> r]

\* ------------------------------------------------------------------ execute_plan_until
\* Mutant of InTarget: the target index itself left out (idx < execute_until).
InTarget_exclusive(idx, execute_until) == idx < execute_until

\* The filter_map over the enumerated steps: the indices the loop body sees.
InTarget(idx, execute_until) == idx <= execute_until

\* Mutant of LoopHasNext: one index past the last step is taken.
LoopHasNext_inclusive(steps, idx, execute_until) ==
    idx <= Len(steps) /\ InTarget(idx, execute_until)

\* Mutant of LoopHasNext: the target alone bounds the loop.
LoopHasNext_to_target(steps, idx, execute_until) == InTarget(idx, execute_until)

\* enumerate() over the steps, filtered by the target.
LoopHasNext(steps, idx, execute_until) == idx < Len(steps) /\ InTarget(idx, execute_until)

\* Mutant of AlreadyExecuted: the comparison exclusive (idx < checkpoint).
AlreadyExecuted_exclusive(checkpoint, idx) ==
    is_some(checkpoint) /\ idx < unwrap_or_default(checkpoint)

\* if plan.checkpoint().is_some() && idx <= plan.checkpoint().unwrap_or_default()
AlreadyExecuted(checkpoint, idx) ==
    is_some(checkpoint) /\ idx <= unwrap_or_default(checkpoint)

\* Mutant of LoadFailed: the task returns without reporting the failure.
LoadFailed_silent(tk) == [tk EXCEPT !.pc = "done", !.loaded = "err"]

\* Mutant of LoadFailed: the failure is sent as an Err value.
LoadFailed_sends_err(tk) ==
    [send(tk, Err("failed to load plan")) EXCEPT !.pc = "done", !.loaded = "err"]

\* if let Err(_) = plan { send(load failure); return; }
LoadFailed(tk) == [send(tk, EvLoadFailed) EXCEPT !.pc = "done", !.loaded = "err"]

Loaded(tk, plan, pc) ==
    [tk EXCEPT !.plan = Some(plan), !.loaded = "ok",
               !.loadedCheckpoint = plan.checkpoint, !.pc = pc]

\* Mutant of SkipStep: the step is skipped without an event.
SkipStep_silent(tk) == [tk EXCEPT !.idx = @ + 1]

\* The skip branch: send the "Already executed" event and continue.
SkipStep(tk) ==
    [send(tk, EvAlreadyExecuted(tk.idx, unwrap_or_default(unwrap(tk.plan).checkpoint)))
        EXCEPT !.idx = @ + 1]

\* PlanService::prepare_context(steps, checkpoint): the indices of the steps
\* the execution context is built from, all steps up to the checkpoint.
prepare_context(steps, checkpoint) == {i \in 0 .. Len(steps) - 1 : i <= checkpoint}

\* let checkpoint = plan.checkpoint().unwrap_or_default(); prepare_context
\* and the call of execute_step with the context: the step is in flight.
StartStep(tk) ==
    LET plan == unwrap(tk.plan)
        checkpoint == unwrap_or_default(plan.checkpoint)
    IN  [tk EXCEPT !.pc = "execute_step", !.attempted = Append(@, tk.idx),
                   !.context = prepare_context(plan.steps, checkpoint)]

\* Mutant of StepErrored: the error is reported and the loop goes on (a
\* continue in place of the return).
StepErrored_continues(tk) ==
    [send(tk, EvErrored(tk.idx)) EXCEPT !.idx = @ + 1, !.pc = "loop", !.failedAt = Some(tk.idx)]

\* Mutant of StepErrored: the checkpoint is advanced before the error is looked at.
StepErrored_advances(tk) ==
    [send(tk, EvErrored(tk.idx))
        EXCEPT !.plan = Some(Plan(unwrap(tk.plan).steps,
                                  increment_checkpoint(unwrap(tk.plan).checkpoint))),
               !.pc = "done", !.failedAt = Some(tk.idx)]

\* if let Err(_) = execution_result { send(error); return; }
StepErrored(tk) ==
    [send(tk, EvErrored(tk.idx)) EXCEPT !.pc = "done", !.failedAt = Some(tk.idx)]

\* Mutant of StepFinished: the call of increment_checkpoint left out.
StepFinished_no_increment(tk) == [send(tk, EvFinished(tk.idx)) EXCEPT !.pc = "save_plan"]

\* Mutant of StepFinished: the event is left out.
StepFinished_silent(tk) ==
    [tk EXCEPT !.plan = Some(Plan(unwrap(tk.plan).steps,
                                  increment_checkpoint(unwrap(tk.plan).checkpoint))),
               !.pc = "save_plan"]

\* Mutant of StepFinished: the checkpoint is set to the target of the call.
StepFinished_sets_target(tk) ==
    [send(tk, EvFinished(tk.idx))
        EXCEPT !.plan = Some(Plan(unwrap(tk.plan).steps,
                                  Some(Min(tk.execute_until, Len(unwrap(tk.plan).steps) - 1)))),
               !.pc = "save_plan"]

\* send("Finished executing until"); plan.increment_checkpoint(); then save_plan
StepFinished(tk) ==
    [send(tk, EvFinished(tk.idx))
        EXCEPT !.plan = Some(Plan(unwrap(tk.plan).steps,
                                  increment_checkpoint(unwrap(tk.plan).checkpoint))),
               !.pc = "save_plan"]

\* What a task keeps of a save_plan call whose result it drops.
Saved(tk, outcome) ==
    [tk EXCEPT !.saveCalls = @ + 1,
               !.saveErrs = IF outcome = "Ok" THEN @ ELSE @ + 1,
               !.lastSaveOk = (outcome = "Ok")]

\* The end of the loop body after the save: the next index.
NextIteration(tk) == [tk EXCEPT !.idx = @ + 1, !.pc = "loop"]

handle_execute_plan_until(t, execute_until) == Spawn(t, "execute", execute_until, "load")

execute_plan_until_load(t) ==
    /\ task[t].pc = "load" /\ task[t].op = "execute"
    /\ task' = [task EXCEPT ![t] =
                  IF load_plan(store) = None THEN LoadFailed(@)
                  ELSE Loaded(@, unwrap(load_plan(store)), "loop")]
    /\ UNCHANGED <<store, requests, executions, storage, thread>>

execute_plan_until_loop(t) ==
    /\ task[t].pc = "loop" /\ task[t].op = "execute"
    /\ LET tk == task[t]
           plan == unwrap(tk.plan)
       IN  task' = [task EXCEPT ![t] =
                      IF ~LoopHasNext(plan.steps, tk.idx, tk.execute_until)
                      THEN [tk EXCEPT !.pc = "done"]
                      ELSE IF AlreadyExecuted(plan.checkpoint, tk.idx)
                      THEN SkipStep(tk)
                      ELSE StartStep(tk)]
    /\ UNCHANGED <<store, requests, executions, storage, thread>>

execute_step_returns(t, ok) ==
    /\ task[t].pc = "execute_step" /\ task[t].op = "execute"
    /\ task' = [task EXCEPT ![t] = IF ok THEN StepFinished(@) ELSE StepErrored(@)]
    /\ executions' = IF ok THEN [executions EXCEPT ![task[t].idx] = @ + 1] ELSE executions
    /\ UNCHANGED <<store, requests, storage, thread>>

\* Mutant of execute_plan_until_save: the snapshot is replaced only by a plan
\* whose checkpoint is not behind it.
execute_plan_until_save_if_newer(t, outcome) ==
    /\ task[t].pc = "save_plan" /\ task[t].op = "execute"
    /\ store' = IF /\ store # None
                   /\ ResumeIndex(unwrap(store).checkpoint) >
                          ResumeIndex(unwrap(task[t].plan).checkpoint)
                THEN store
                ELSE save_plan(store, unwrap(task[t].plan), outcome)
    /\ task' = [task EXCEPT ![t] = NextIteration(Saved(@, outcome))]
    /\ UNCHANGED <<requests, executions, storage, thread>>

execute_plan_until_save(t, outcome) ==
    /\ task[t].pc = "save_plan" /\ task[t].op = "execute"
    /\ store' = save_plan(store, unwrap(task[t].plan), outcome)
    /\ task' = [task EXCEPT ![t] = NextIteration(Saved(@, outcome))]
    /\ UNCHANGED <<requests, executions, storage, thread>>

\* ------------------------------------------------------------------ create_plan
\* A call of an external capability (planning, diagnostics) is in flight.
CallExternal(tk, pc) == [tk EXCEPT !.externalCalls = @ + 1, !.pc = pc]

\* Plan::new: the generated steps, no checkpoint.
NewPlan(steps) == Plan(steps, None)

\* What a task keeps of the answer of the planning capability.
Generated(tk, result, steps) == [tk EXCEPT !.returned = result, !.generated = steps]

\* Ok(plan): the plan is saved by the next stretch of the task.
PlanCreated(tk, steps) ==
    [Generated(tk, "Ok", steps) EXCEPT !.plan = Some(NewPlan(steps)), !.pc = "save_plan"]

\* Mutant of PlanNotCreated: the failure is reported and an empty plan is
\* saved in place of the missing one.
PlanNotCreated_saves_empty(tk) ==
    [send(Generated(tk, "Err", <<>>), EvFailedToGenerate)
        EXCEPT !.plan = Some(NewPlan(<<>>)), !.pc = "save_plan"]

\* Err(e): send "Failed to generate plan".
PlanNotCreated(tk) ==
    [send(Generated(tk, "Err", <<>>), EvFailedToGenerate) EXCEPT !.pc = "done"]

\* After the save: send "finished generating plan", drop the sender, return.
CreateDone(tk) == [send(tk, EvFinishedGenerating) EXCEPT !.pc = "done"]

handle_create_plan(t) == Spawn(t, "create", 0, "begin")

create_plan_begin(t) ==
    /\ task[t].pc = "begin" /\ task[t].op = "create"
    /\ task' = [task EXCEPT ![t] = CallExternal(send(@, EvGeneratingPlan), "create_plan")]
    /\ UNCHANGED <<store, requests, executions, storage, thread>>

create_plan_returns(t, ok, n) ==
    /\ task[t].pc = "create_plan" /\ task[t].op = "create"
    /\ task' = [task EXCEPT ![t] =
                  IF ok THEN PlanCreated(@, GeneratedSteps(n, requests))
                  ELSE PlanNotCreated(@)]
    /\ UNCHANGED <<store, requests, executions, storage, thread>>

create_plan_save(t, outcome) ==
    /\ task[t].pc = "save_plan" /\ task[t].op = "create"
    /\ store' = save_plan(store, unwrap(task[t].plan), outcome)
    /\ task' = [task EXCEPT ![t] = CreateDone(Saved(@, outcome))]
    /\ executions' = IF outcome = "Ok" THEN NoExecutions ELSE executions
    /\ UNCHANGED <<requests, storage, thread>>

\* ------------------------------------------------------------------ append_to_plan
\* After the load: send "Generating new steps from the context", call append_steps.
AppendLoaded(tk, plan) ==
    CallExternal(send(Loaded(tk, plan, "append_steps"), EvGeneratingSteps), "append_steps")

\* Mutant of StepsAppended: the plan that is saved holds the new steps only.
StepsAppended_replaces(tk, new_steps) ==
    [send(Generated(tk, "Ok", new_steps), EvPlanDebug)
        EXCEPT !.plan = Some(Plan(new_steps, unwrap(tk.plan).checkpoint)), !.pc = "save_plan"]

\* if let Ok(plan) = append_steps(..): send the debug view, then save_plan.
StepsAppended(tk, new_steps) ==
    [send(Generated(tk, "Ok", new_steps), EvPlanDebug)
        EXCEPT !.plan = Some(append_steps(unwrap(tk.plan), new_steps)), !.pc = "save_plan"]

\* Mutant of StepsNotAppended: the message of the load failure is sent.
StepsNotAppended_reports_load(tk) ==
    [send(Generated(tk, "Err", <<>>), EvLoadFailed) EXCEPT !.pc = "done"]

\* else: send "Failed to add new steps to the plan".
StepsNotAppended(tk) ==
    [send(Generated(tk, "Err", <<>>), EvFailedToAdd) EXCEPT !.pc = "done"]

handle_append_plan(t) == Spawn(t, "append", 0, "load")

append_to_plan_load(t) ==
    /\ task[t].pc = "load" /\ task[t].op = "append"
    /\ task' = [task EXCEPT ![t] =
                  IF load_plan(store) = None THEN LoadFailed(@)
                  ELSE AppendLoaded(@, unwrap(load_plan(store)))]
    /\ UNCHANGED <<store, requests, executions, storage, thread>>

append_steps_returns(t, ok, n) ==
    /\ task[t].pc = "append_steps" /\ task[t].op = "append"
    /\ ok => Len(unwrap(task[t].plan).steps) + n <= MaxSteps
    /\ task' = [task EXCEPT ![t] =
                  IF ok THEN StepsAppended(@, GeneratedSteps(n, requests))
                  ELSE StepsNotAppended(@)]
    /\ UNCHANGED <<store, requests, executions, storage, thread>>

append_to_plan_save(t, outcome) ==
    /\ task[t].pc = "save_plan" /\ task[t].op = "append"
    /\ store' = save_plan(store, unwrap(task[t].plan), outcome)
    /\ task' = [task EXCEPT ![t] = [Saved(@, outcome) EXCEPT !.pc = "done"]]
    /\ UNCHANGED <<requests, executions, storage, thread>>

\* ------------------------------------------------------------------ generate_steps_from_diagnostics
\* A diagnostic record: the file it applies to and what it reports.
Files == {"a.rs", "b.rs"}
Messages == {"E1", "E2"}
Diagnostics == [fs_file_path : Files, message : Messages]
DiagnosticLists(max) == UNION {[1 .. n -> Diagnostics] : n \in 0 .. max}

\* Result<Vec<Diagnostic>>: what get_lsp_diagnostics_for_files returns.
LspResults(max) ==
    {[ok |-> FALSE, value |-> <<>>]} \cup {[ok |-> TRUE, value |-> d] : d \in DiagnosticLists(max)}

\* Result::unwrap_or
unwrap_or(result, default) == IF result.ok THEN result.value ELSE default

\* Mutant of group_by_file: insert(path, vec![error]) in place of
\* entry(path).or_insert_with(Vec::new).push(error).
RECURSIVE group_by_file_overwrites(_, _)
group_by_file_overwrites(acc, errors) ==
    IF errors = <<>> THEN acc
    ELSE LET error == Head(errors)
             path == error.fs_file_path
             rest == [p \in DOMAIN acc \ {path} |-> acc[p]]
         IN  group_by_file_overwrites(rest @@ (path :> <<error>>), Tail(errors))

\* file_lsp_diagnostics.into_iter().fold(HashMap::new(), |mut acc, error| {
\*     acc.entry(error.fs_file_path().to_owned()).or_insert_with(Vec::new).push(error); acc })
RECURSIVE group_by_file(_, _)
group_by_file(acc, errors) ==
    IF errors = <<>> THEN acc
    ELSE LET error == Head(errors)
             path == error.fs_file_path
             entry == IF path \in DOMAIN acc THEN acc ELSE acc @@ (path :> <<>>)
         IN  group_by_file([entry EXCEPT ![path] = Append(@, error)], Tail(errors))

\* HashMap::new()
EmptyMap == <<>>

\* Mutant of DiagnosticsLoaded: the check of the checkpoint left out.
DiagnosticsLoaded_no_check(tk, plan) ==
    CallExternal(Loaded(tk, plan, "lsp_diagnostics"), "lsp_diagnostics")

\* if let None = plan.checkpoint() { return; }  else fetch the diagnostics of
\* the files edited up to the checkpoint.
DiagnosticsLoaded(tk, plan) ==
    IF plan.checkpoint = None
    THEN Loaded(tk, plan, "done")
    ELSE CallExternal(Loaded(tk, plan, "lsp_diagnostics"), "lsp_diagnostics")

\* Mutant of DiagnosticsFetched: a failed fetch ends the task with a report.
DiagnosticsFetched_aborts(tk, result) ==
    IF result.ok
    THEN CallExternal([tk EXCEPT !.fetch = "Ok", !.lspDiagnostics = result.value,
                                 !.diagnosticMap = group_by_file(EmptyMap, result.value)],
                      "generate_steps")
    ELSE [send(tk, EvLoadFailed) EXCEPT !.fetch = "Err", !.pc = "done"]

\* .unwrap_or(vec![]), the fold into the DiagnosticMap, then the call of
\* generate_steps_with_diagnostics with the map.
DiagnosticsFetched(tk, result) ==
    LET file_lsp_diagnostics == unwrap_or(result, <<>>)
    IN  CallExternal([tk EXCEPT !.fetch = IF result.ok THEN "Ok" ELSE "Err",
                                !.lspDiagnostics = file_lsp_diagnostics,
                                !.diagnosticMap = group_by_file(EmptyMap, file_lsp_diagnostics)],
                     "generate_steps")

\* let _response = ...: the answer of the planning capability is dropped and
\* the function returns.
StepsFromDiagnostics(tk, result, steps) ==
    [Generated(tk, result, steps) EXCEPT !.pc = "done"]

handle_diagnostics_to_steps(t) == Spawn(t, "diagnostics", 0, "load")

generate_steps_from_diagnostics_load(t) ==
    /\ task[t].pc = "load" /\ task[t].op = "diagnostics"
    /\ task' = [task EXCEPT ![t] =
                  IF load_plan(store) = None THEN LoadFailed(@)
                  ELSE DiagnosticsLoaded(@, unwrap(load_plan(store)))]
    /\ UNCHANGED <<store, requests, executions, storage, thread>>

lsp_diagnostics_returns(t, result) ==
    /\ task[t].pc = "lsp_diagnostics" /\ task[t].op = "diagnostics"
    /\ task' = [task EXCEPT ![t] = DiagnosticsFetched(@, result)]
    /\ UNCHANGED <<store, requests, executions, storage, thread>>

generate_steps_returns(t, ok, n) ==
    /\ task[t].pc = "generate_steps" /\ task[t].op = "diagnostics"
    /\ task' = [task EXCEPT ![t] =
                  IF ok THEN StepsFromDiagnostics(@, "Ok", GeneratedSteps(n, requests))
                  ELSE StepsFromDiagnostics(@, "Err", <<>>)]
    /\ UNCHANGED <<store, requests, executions, storage, thread>>

\* ------------------------------------------------------------------ the stream of a request
\* init_stream.chain(answer_stream).chain(done_stream), polled by the
\* consumer of the response: stream is the part of the chain polled next.
\* The sender lives in the task and is dropped when the task returns.
SenderDropped(tk) == tk.pc = "done"

Deliver(tk, ev) == [tk EXCEPT !.delivered = Append(@, ev)]

\* init_stream: once(session_id).
InitPolled(tk) == [Deliver(tk, EvInit) EXCEPT !.stream = "answer"]

\* Mutant of AnswerPolled: the newest message is taken, not the oldest.
AnswerPolled_newest(tk) ==
    [Deliver(tk, tk.queue[Len(tk.queue)]) EXCEPT !.queue = SubSeq(@, 1, Len(@) - 1)]

\* answer_stream: the receiver yields the oldest queued message, and the map
\* forces it: conversation_message.expect("should not fail deserialization").
AnswerPolled(tk) ==
    IF IsErr(Head(tk.queue))
    THEN [tk EXCEPT !.stream = "panicked", !.queue = Tail(@)]
    ELSE [Deliver(tk, Head(tk.queue)) EXCEPT !.queue = Tail(@)]

\* Mutant of AnswerEnds: the receiver ends as soon as its queue is empty.
AnswerEnds_early(tk) == tk.queue = <<>>

\* The receiver yields None: the queue is empty and the sender is dropped.
AnswerEnds(tk) == tk.queue = <<>> /\ SenderDropped(tk)

\* Mutant of DonePolled: the stream ends without the terminal marker.
DonePolled_no_marker(tk) == [tk EXCEPT !.stream = "end"]

\* done_stream: once([CODESTORY_DONE]).
DonePolled(tk) == [Deliver(tk, EvDone) EXCEPT !.stream = "end"]

\* The consumer goes away: the stream and with it the receiver are dropped.
StreamDropped(tk) == [tk EXCEPT !.stream = "dropped", !.queue = <<>>]

poll_init(t) ==
    /\ task[t].stream = "init"
    /\ task' = [task EXCEPT ![t] = InitPolled(@)]
    /\ UNCHANGED <<store, requests, executions, storage, thread>>

poll_answer(t) ==
    /\ task[t].stream = "answer"
    /\ \/ /\ task[t].queue # <<>>
          /\ task' = [task EXCEPT ![t] = AnswerPolled(@)]
       \/ /\ AnswerEnds(task[t])
          /\ task' = [task EXCEPT ![t].stream = "done"]
    /\ UNCHANGED <<store, requests, executions, storage, thread>>

poll_done(t) ==
    /\ task[t].stream = "done"
    /\ task' = [task EXCEPT ![t] = DonePolled(@)]
    /\ UNCHANGED <<store, requests, executions, storage, thread>>

consumer_disappears(t) ==
    /\ task[t].stream \in {"init", "answer", "done"}
    /\ task' = [task EXCEPT ![t] = StreamDropped(@)]
    /\ UNCHANGED <<store, requests, executions, storage, thread>>

\* ------------------------------------------------------------------ specification
\* The handlers: each spawns its task and returns the stream at once.
Request(t) ==
    \/ handle_create_plan(t)
    \/ handle_append_plan(t)
    \/ \E k \in Targets : handle_execute_plan_until(t, k)
    \/ handle_diagnostics_to_steps(t)

\* Mutant of ChannelHasRoom: a channel of capacity one, whose send waits.
ChannelHasRoom_bounded(tk) == Len(tk.queue) < 1

\* unbounded_channel(): a send never waits for the receiver.
ChannelHasRoom(tk) == TRUE

\* The steps of the spawned task.
Work(t) ==
    /\ ChannelHasRoom(task[t])
    /\ \/ create_plan_begin(t)
       \/ \E ok \in BOOLEAN, n \in 0 .. MaxNewSteps : create_plan_returns(t, ok, n)
       \/ \E outcome \in SaveOutcomes : create_plan_save(t, outcome)
       \/ append_to_plan_load(t)
       \/ \E ok \in BOOLEAN, n \in 0 .. MaxNewSteps : append_steps_returns(t, ok, n)
       \/ \E outcome \in SaveOutcomes : append_to_plan_save(t, outcome)
       \/ execute_plan_until_load(t)
       \/ execute_plan_until_loop(t)
       \/ \E ok \in BOOLEAN : execute_step_returns(t, ok)
       \/ \E outcome \in SaveOutcomes : execute_plan_until_save(t, outcome)
       \/ generate_steps_from_diagnostics_load(t)
       \/ \E result \in LspResults(MaxFetched) : lsp_diagnostics_returns(t, result)
       \/ \E ok \in BOOLEAN, n \in 0 .. MaxNewSteps : generate_steps_returns(t, ok, n)

\* The consumer of the response polling the stream.
Consume(t) == poll_init(t) \/ poll_answer(t) \/ poll_done(t)

TaskStep(t) == Request(t) \/ Work(t)

\* Requests on the plan id serialized by the invoker: one task at a time.
Next == TaskStep(1)

Spec == Init /\ [][Next]_vars

\* The diagnostics operation alone, on a plan that was created and executed
\* up to some step, with longer lists of diagnostics.
DiagnosticsInit ==
    /\ \E n \in 1 .. MaxSteps, c \in 0 .. MaxSteps - 1 :
          /\ c < n
          /\ store = Some(Plan(GeneratedSteps(n, 0), Some(c)))
          /\ executions = [i \in 0 .. MaxSteps - 1 |-> IF i <= c THEN 1 ELSE 0]
    /\ task = [t \in Tasks |-> IdleTask]
    /\ requests = 0
    /\ storage = StorageOfThePlan
    /\ thread = NoThread

DiagnosticsNext ==
    \/ handle_diagnostics_to_steps(1)
    \/ generate_steps_from_diagnostics_load(1)
    \/ \E result \in LspResults(MaxDiagnostics) : lsp_diagnostics_returns(1, result)
    \/ \E ok \in BOOLEAN, n \in 0 .. MaxNewSteps : generate_steps_returns(1, ok, n)

DiagnosticsSpec == DiagnosticsInit /\ [][DiagnosticsNext]_vars

\* Two execute_until requests on the same plan id, one task each, their
\* steps interleaved in any way: nothing in the handler or the task waits
\* for another task.
ExecuteStep(t) ==
    \/ \E k \in Targets : task[t].pc = "idle" /\ handle_execute_plan_until(t, k)
    \/ execute_plan_until_load(t)
    \/ execute_plan_until_loop(t)
    \/ \E ok \in BOOLEAN : execute_step_returns(t, ok)
    \/ \E outcome \in SaveOutcomes : execute_plan_until_save(t, outcome)

ConcurrentNext == \E t \in Tasks : ExecuteStep(t)

\* A request and the consumer of its stream, on any plan a serialized
\* behaviour leaves in the store: none, created, partially or fully executed.
StoredPlans ==
    {Plan(GeneratedSteps(n, 0), checkpoint) :
        n \in 0 .. MaxSteps, checkpoint \in {None} \cup {Some(c) : c \in 0 .. MaxSteps - 1}}

StreamInit ==
    /\ \/ store = None /\ executions = NoExecutions
       \/ \E plan \in StoredPlans :
            /\ plan.checkpoint # None => unwrap(plan.checkpoint) < Len(plan.steps)
            /\ store = Some(plan)
            /\ executions = [i \in 0 .. MaxSteps - 1 |->
                               IF AlreadyExecuted(plan.checkpoint, i) THEN 1 ELSE 0]
    /\ task = [t \in Tasks |-> IdleTask]
    /\ requests = 0
    /\ storage = StorageOfThePlan
    /\ thread = NoThread

\* The stream of the request before is over: polled to its end, or dropped.
StreamClosed(t) == task[t].stream \in {"none", "end", "dropped"}

StreamNext ==
    \/ StreamClosed(1) /\ requests < MaxStreams /\ Request(1)
    \/ Work(1)
    \/ Consume(1)

\* The consumer polls the stream to its end.
StreamSpec == StreamInit /\ [][StreamNext]_vars

\* Every external call returns, and the consumer keeps polling.
LiveSpec == StreamInit /\ [][StreamNext]_vars /\ WF_vars(Work(1)) /\ WF_vars(Consume(1))

\* The consumer may go away at any point.
BestEffortNext == StreamNext \/ consumer_disappears(1)

BestEffortSpec == StreamInit /\ [][BestEffortNext]_vars

\* Every external call returns; nothing is assumed of the consumer.
TaskFairSpec == StreamInit /\ [][BestEffortNext]_vars /\ WF_vars(Work(1))

ConcurrentSpec == StreamInit /\ [][ConcurrentNext]_vars

\* An append and an execute_until on the same plan id, one task each, their
\* steps interleaved in any way.
AppendStep(t) ==
    \/ task[t].pc = "idle" /\ handle_append_plan(t)
    \/ append_to_plan_load(t)
    \/ \E ok \in BOOLEAN, n \in 0 .. MaxNewSteps : append_steps_returns(t, ok, n)
    \/ \E outcome \in SaveOutcomes : append_to_plan_save(t, outcome)

AppendExecuteNext == AppendStep(1) \/ ExecuteStep(2)

AppendExecuteSpec == StreamInit /\ [][AppendExecuteNext]_vars

\* Calls of check_plan_storage_path, also concurrent ones, on an index
\* directory with or without its plans directory.
StorageInit ==
    /\ store = None
    /\ task = [t \in Tasks |-> IdleTask]
    /\ requests = 0
    /\ executions = NoExecutions
    /\ \E dir \in {NoPlansDir} \cup {PlansDir(entries) : entries \in SUBSET PlanIds} :
          storage = [dir |-> dir, call |-> [c \in Callers |-> IdleCall]]
    /\ thread = NoThread

StorageNext ==
    \E c \in Callers :
        \/ \E plan_id \in PlanIds : check_plan_storage_path(c, plan_id)
        \/ metadata_returns(c)
        \/ \E outcome \in {"Ok", "IoError"} : create_dir_returns(c, outcome)

StorageSpec == StorageInit /\ [][StorageNext]_vars

\* A followup_chat request in a thread whose last message has any user
\* context, or in a new thread (no previous message).
MergeInit ==
    /\ store = None
    /\ task = [t \in Tasks |-> IdleTask]
    /\ requests = 0
    /\ executions = NoExecutions
    /\ storage = StorageOfThePlan
    /\ \E previous \in {None} \cup {Some(c) : c \in UserContexts("previous")} :
       \E user_context \in UserContexts("current") :
          thread = [pc |-> "request", previous |-> previous,
                    user_context |-> user_context, merged |-> None]

MergeNext == followup_chat

MergeSpec == MergeInit /\ [][MergeNext]_vars

\* ================================================================== claims
Running == {t \in Tasks : task[t].op = "execute"}
StoredPlan == unwrap(store)
InMemory(t) == unwrap(task[t].plan)
LastIndex(plan) == Len(plan.steps) - 1

\* ------------------------------------------------------------------ C1
CheckpointInRange(plan) ==
    plan.checkpoint = None \/ unwrap(plan.checkpoint) < Len(plan.steps)

\* C1: in every reachable state, the checkpoint of the persisted snapshot and
\* of every plan a task holds in memory is None or an index below len(steps).
C1_CheckpointBelowLen ==
    /\ store # None => CheckpointInRange(StoredPlan)
    /\ \A t \in Tasks : task[t].plan # None => CheckpointInRange(InMemory(t))

\* C1 witness: an execute_until whose target lies beyond the plan has run to
\* its end and left the checkpoint, in memory and persisted, on the last step.
C1_Witness ==
    \E t \in Running :
        /\ task[t].pc = "done" /\ task[t].attempted # <<>>
        /\ task[t].execute_until >= Len(InMemory(t).steps)
        /\ InMemory(t).checkpoint = Some(LastIndex(InMemory(t)))
        /\ store = task[t].plan

\* ------------------------------------------------------------------ C2

\* An execute_until that loaded its plan and ran to its end with no step failing.
RanToEnd(t) ==
    /\ task[t].op = "execute" /\ task[t].pc = "done"
    /\ task[t].loaded = "ok" /\ task[t].failedAt = None

\* The checkpoint execute_until(k) ends with on a plan of n steps loaded with
\* checkpoint c: the larger of c and min(k, n - 1); None for an empty plan.
FinalCheckpoint(t) ==
    LET n == Len(InMemory(t).steps)
        c == task[t].loadedCheckpoint
        k == Min(task[t].execute_until, n - 1)
    IN  IF n = 0 THEN c
        ELSE IF c = None THEN Some(k)
        ELSE Some(Max(unwrap(c), k))

C3_ExecutedAtMostOnce ==
    /\ \A i \in DOMAIN executions : executions[i] <= 1
    /\ (store # None /\ StoredPlan.checkpoint # None) =>
           \A i \in 0 .. unwrap(StoredPlan.checkpoint) : executions[i] = 1
    /\ \A t \in Running : \A j \in DOMAIN task[t].attempted :
           task[t].attempted[j] <= task[t].execute_until

\* ------------------------------------------------------------------ C4
\* The call of task t repeats, as the very next request, an execute_until(k)
\* that completed without failure (no step failed, no save failed).
RepeatsCleanCall(t) ==
    /\ task[t].op = "execute" /\ task[t].loaded # "pending"
    /\ task[t].prev.op = "execute" /\ task[t].prev.clean
    /\ task[t].prev.execute_until = task[t].execute_until

OnlyAlreadyExecuted(events) ==
    \A j \in DOMAIN events : events[j][1] = "Already executed step"

\* C4: the second of two execute_until(k) in a row, the first completed
\* without failure, executes no step, saves nothing, leaves the checkpoint in
\* memory and in the snapshot as loaded, and sends only "Already executed"
\* events.
C4_SecondCallIsNoOp ==
    \A t \in Tasks : RepeatsCleanCall(t) =>
        /\ task[t].loaded = "ok"
        /\ task[t].attempted = <<>>
        /\ task[t].saveCalls = 0
        /\ InMemory(t).checkpoint = task[t].loadedCheckpoint
        /\ StoredPlan.checkpoint = task[t].loadedCheckpoint
        /\ OnlyAlreadyExecuted(task[t].events)

\* C4 witness: the repeated call has run to its end and has sent at least two
\* "Already executed" events.
C4_Witness ==
    \E t \in Tasks :
        /\ RepeatsCleanCall(t) /\ task[t].pc = "done"
        /\ Len(task[t].events) >= 2

\* ------------------------------------------------------------------ C5
\* C5: the first step an execute_until call executes is the one after the
\* loaded checkpoint; and a call that directly follows an execute_until that
\* failed at step j, with a target >= j, executes step j first and no step
\* below j.
C5_ResumesAtFailedStep ==
    \A t \in Running :
        /\ task[t].attempted # <<>> =>
               task[t].attempted[1] = ResumeIndex(task[t].loadedCheckpoint)
        /\ (/\ task[t].prev.op = "execute" /\ task[t].prev.failedAt # None
            /\ task[t].execute_until >= unwrap(task[t].prev.failedAt)) =>
               /\ task[t].pc = "done" => task[t].attempted # <<>>
               /\ \A j \in DOMAIN task[t].attempted :
                      task[t].attempted[j] >= unwrap(task[t].prev.failedAt)

\* ------------------------------------------------------------------ C6
Count(events, kind) == Cardinality({j \in DOMAIN events : events[j][1] = kind})
Last(seq) == seq[Len(seq)]
\* The checkpoint just before step i: Some(i - 1), None for the first step.
CheckpointBefore(i) == IF i = 0 THEN None ELSE Some(i - 1)

C7_PersistedBeforeNextStep ==
    \A t \in Running : (task[t].pc = "execute_step" /\ task[t].idx > 0) =>
        /\ store # None
        /\ StoredPlan.checkpoint = Some(task[t].idx - 1)

\* ------------------------------------------------------------------ C8
\* C8: the indices one task executes are consecutive and ascending, starting
\* right after the loaded checkpoint; while step idx is in flight the
\* checkpoint in memory is idx - 1 and every lower step has succeeded.
C8_AscendingNoGaps ==
    \A t \in Running :
        /\ task[t].attempted # <<>> =>
               task[t].attempted[1] = ResumeIndex(task[t].loadedCheckpoint)
        /\ \A j \in DOMAIN task[t].attempted :
               j > 1 => task[t].attempted[j] = task[t].attempted[j - 1] + 1
        /\ task[t].pc = "execute_step" =>
               /\ Last(task[t].attempted) = task[t].idx
               /\ InMemory(t).checkpoint = CheckpointBefore(task[t].idx)
               /\ \A i \in 0 .. task[t].idx - 1 : executions[i] >= 1

\* C8 witness: a call that resumed after step 0 has its second step in flight.
C8_Witness ==
    \E t \in Running :
        /\ task[t].pc = "execute_step"
        /\ Len(task[t].attempted) >= 2 /\ task[t].attempted[1] >= 1

\* ------------------------------------------------------------------ C9
\* C9: every step up to a checkpoint, persisted or in memory, has returned
\* success from execute_step; and a step that returned an error left the
\* checkpoint in memory where it was, and the snapshot with it.
C9_CheckpointOnlyPastSuccess ==
    /\ (store # None /\ StoredPlan.checkpoint # None) =>
           \A i \in 0 .. unwrap(StoredPlan.checkpoint) : executions[i] >= 1
    /\ \A t \in Running :
           /\ (task[t].plan # None /\ InMemory(t).checkpoint # None) =>
                  \A i \in 0 .. unwrap(InMemory(t).checkpoint) : executions[i] >= 1
           /\ task[t].failedAt # None =>
                  /\ InMemory(t).checkpoint = CheckpointBefore(unwrap(task[t].failedAt))
                  /\ StoredPlan.checkpoint # task[t].failedAt

\* C9 witness: a step that never succeeded has returned an error, and the
\* snapshot's checkpoint is on the step before it.
C9_Witness ==
    \E t \in Running :
        /\ task[t].failedAt # None /\ unwrap(task[t].failedAt) >= 1
        /\ executions[unwrap(task[t].failedAt)] = 0
        /\ StoredPlan.checkpoint = CheckpointBefore(unwrap(task[t].failedAt))

\* ------------------------------------------------------------------ C10
\* C10: a task (execute_until, append, diagnostics_to_steps) whose load failed
\* has ended having sent the load-failure event and nothing else, executed no
\* step, called no planning or diagnostics capability and saved nothing; no
\* snapshot exists.
C10_LoadFailureEndsTheTask ==
    \A t \in Tasks : task[t].loaded = "err" =>
        /\ task[t].op \in {"execute", "append", "diagnostics"}
        /\ task[t].pc = "done"
        /\ task[t].events = <<EvLoadFailed>>
        /\ task[t].attempted = <<>>
        /\ task[t].externalCalls = 0
        /\ task[t].saveCalls = 0
        /\ store = None

\* C10 witness: after a create whose generation failed, a diagnostics_to_steps
\* has found no snapshot.
C10_Witness ==
    \E t \in Tasks :
        /\ task[t].loaded = "err" /\ task[t].op = "diagnostics"
        /\ task[t].prev.op = "create"

\* ------------------------------------------------------------------ C11
\* The create of task t whose step generation succeeded.
CreateSucceeded(t) == task[t].op = "create" /\ task[t].returned = "Ok"

\* C11: when step generation succeeds, the new plan has checkpoint None, the
\* summary event is sent only once the plan is in the store, and the finished
\* task has sent "Generating plan" and then one summary event.
C11_CreatePersistsThenReports ==
    \A t \in Tasks : CreateSucceeded(t) =>
        /\ InMemory(t).checkpoint = None
        /\ Count(task[t].events, "finished generating plan") >= 1 => store = task[t].plan
        /\ task[t].pc = "done" =>
               /\ task[t].events = <<EvGeneratingPlan, EvFinishedGenerating>>
               /\ store = task[t].plan

\* ------------------------------------------------------------------ C12
\* The create of task t whose step generation failed.
CreateFailed(t) == task[t].op = "create" /\ task[t].returned = "Err"

\* C12: when step generation fails, create ends with an error, has called
\* save_plan not once, holds no plan, and has sent "Generating plan" followed
\* by exactly one "Failed to generate plan".
C12_CreateFailureWritesNothing ==
    \A t \in Tasks : CreateFailed(t) =>
        /\ task[t].pc = "done"
        /\ task[t].plan = None
        /\ task[t].saveCalls = 0
        /\ task[t].events = <<EvGeneratingPlan, EvFailedToGenerate>>

\* C12 witness: a create failed while a snapshot of an earlier create exists;
\* the snapshot is the one the earlier request left.
C12_Witness ==
    \E t \in Tasks : CreateFailed(t) /\ store # None /\ task[t].prev.op = "execute"

\* ------------------------------------------------------------------ C13
IsPrefix(a, b) == Len(a) <= Len(b) /\ SubSeq(b, 1, Len(a)) = a

\* Task t gets the answer of append_steps in this step.
AppendReturns(t) ==
    task[t].op = "append" /\ task[t].pc = "append_steps" /\ task'[t].returned = "Ok"

\* Task t ends a save_plan call in this step.
SaveReturns(t) == task[t].pc = "save_plan" /\ task'[t].pc # "save_plan"

C14_AppendFailuresDistinct ==
    \A t \in Tasks : task[t].op = "append" =>
        /\ task[t].loaded = "err" =>
               /\ task[t].pc = "done"
               /\ task[t].events = <<EvLoadFailed>>
               /\ task[t].returned = "pending" /\ task[t].externalCalls = 0
        /\ task[t].returned = "Err" =>
               /\ task[t].pc = "done" /\ task[t].loaded = "ok"
               /\ task[t].events = <<EvGeneratingSteps, EvFailedToAdd>>
               /\ task[t].saveCalls = 0
               /\ store = task[t].plan

C14_Witness ==
    \E t \in Tasks :
        /\ task[t].op = "append" /\ task[t].returned = "Err"
        /\ StoredPlan.steps # <<>> /\ StoredPlan.checkpoint # None

\* ------------------------------------------------------------------ C15
\* C15: once a successful append has sent the debug view of the plan, the
\* persisted plan is the appended plan.
C15_PersistedBeforeDebugView ==
    \A t \in Tasks :
        (/\ task[t].op = "append" /\ task[t].returned = "Ok"
         /\ Count(task[t].events, "plan debug view") >= 1) => store = task[t].plan

\* ------------------------------------------------------------------ C16
\* C16: diagnostics-to-steps on a plan whose checkpoint is None does nothing:
\* no diagnostics are fetched, the planning capability is not called, no
\* event is sent, nothing is saved and the persisted plan is as it was.
C16_NoCheckpointNoOp ==
    \A t \in Tasks :
        (/\ task[t].op = "diagnostics" /\ task[t].loaded = "ok"
         /\ task[t].loadedCheckpoint = None) =>
            /\ task[t].pc = "done"
            /\ task[t].externalCalls = 0
            /\ task[t].fetch = "pending" /\ task[t].returned = "pending"
            /\ task[t].events = <<>>
            /\ task[t].saveCalls = 0
            /\ store = task[t].plan

C16_Witness ==
    \E t \in Tasks :
        /\ task[t].op = "diagnostics" /\ task[t].loaded = "ok"
        /\ task[t].loadedCheckpoint = None
        /\ StoredPlan.steps # <<>>

\* ------------------------------------------------------------------ C17
\* C17: when diagnostics-to-steps ran on a plan with a checkpoint and the
\* planning capability returned the steps S, the persisted plan holds the
\* previous steps followed by S, and its checkpoint is unchanged.
C17_DiagnosticStepsAppended ==
    \A t \in Tasks :
        (/\ task[t].op = "diagnostics" /\ task[t].pc = "done"
         /\ task[t].returned = "Ok") =>
            /\ store # None
            /\ StoredPlan.steps = InMemory(t).steps \o task[t].generated
            /\ StoredPlan.checkpoint = task[t].loadedCheckpoint

\* ------------------------------------------------------------------ C18
\* C18: when the fetch of the diagnostics fails, the task goes on: no event
\* is sent, the list of diagnostics is empty, and the planning capability is
\* called with the empty map.
C18_FetchFailureIsEmptyList ==
    \A t \in Tasks :
        (task[t].op = "diagnostics" /\ task[t].fetch = "Err") =>
            /\ task[t].events = <<>>
            /\ task[t].lspDiagnostics = <<>>
            /\ task[t].diagnosticMap = EmptyMap
            /\ task[t].externalCalls = 2
            /\ task[t].pc \in {"generate_steps", "done"}
            /\ task[t].pc = "done" => task[t].returned # "pending"

C18_Witness ==
    \E t \in Tasks :
        /\ task[t].op = "diagnostics" /\ task[t].fetch = "Err"
        /\ task[t].pc = "done" /\ task[t].returned = "Ok"

\* ------------------------------------------------------------------ C19
\* C19: in every operation, a failure of the planning capability is reported
\* by a progress event, and the plan is not saved.
C19_GenerationFailureReported ==
    \A t \in Tasks :
        (task[t].returned = "Err" /\ task[t].pc = "done") =>
            /\ \/ Count(task[t].events, "Failed to generate plan") >= 1
               \/ Count(task[t].events, "Failed to add new steps to the plan") >= 1
            /\ task[t].saveCalls = 0

\* ------------------------------------------------------------------ C20
PathsOf(errors) == {errors[i].fs_file_path : i \in DOMAIN errors}
ForPath(errors, path) == SelectSeq(errors, LAMBDA e : e.fs_file_path = path)
RECURSIVE TotalLen(_, _)
TotalLen(map, paths) ==
    IF paths = {} THEN 0
    ELSE LET path == CHOOSE p \in paths : TRUE
         IN  Len(map[path]) + TotalLen(map, paths \ {path})

\* C20: the map built from the fetched diagnostics has exactly the file paths
\* of the list as its keys; the list of a path is the diagnostics of that
\* path in the order of the list, duplicates kept; the lists together hold as
\* many diagnostics as the list.
C20_GroupedByFileInOrder ==
    \A t \in Tasks : task[t].fetch # "pending" =>
        LET map == task[t].diagnosticMap
            errors == task[t].lspDiagnostics
        IN  /\ DOMAIN map = PathsOf(errors)
            /\ \A path \in DOMAIN map : map[path] = ForPath(errors, path)
            /\ TotalLen(map, DOMAIN map) = Len(errors)

\* Two files interleaved, and the same diagnostic twice.
C20_Witness ==
    \E t \in Tasks :
        LET errors == task[t].lspDiagnostics
        IN  /\ task[t].fetch = "Ok" /\ Len(errors) >= 3
            /\ errors[1] = errors[3]
            /\ errors[2].fs_file_path # errors[1].fs_file_path

\* ------------------------------------------------------------------ C21
\* The content events of a delivered sequence: all but the frame.
Content(delivered) ==
    SelectSeq(delivered, LAMBDA e : e[1] \notin {EvInit[1], EvDone[1]})
ConsumerAlive(t) == task[t].stream \in {"init", "answer", "done", "end"}

\* C21: while the consumer is alive, the content events it has received
\* followed by the events still queued are exactly the events the task sent,
\* in the order sent: nothing is dropped, duplicated or reordered.
C21_FifoLossless ==
    \A t \in Tasks : ConsumerAlive(t) =>
        Content(task[t].delivered) \o task[t].queue = task[t].events

C21_Witness ==
    \E t \in Tasks :
        /\ task[t].stream = "end" /\ Len(task[t].events) >= 3
        /\ task[t].events[1] # task[t].events[2]
        /\ Content(task[t].delivered) = task[t].events

\* ------------------------------------------------------------------ C22
Positions(delivered, ev) == {j \in DOMAIN delivered : delivered[j] = ev}

\* C22: for every handler, what the caller has received is framed: the
\* initiation event is the first event and occurs once, the done event occurs
\* only as the last event of an ended stream and once, and all content
\* events lie between the two.
C22_StreamFramed ==
    \A t \in Tasks :
        LET delivered == task[t].delivered
        IN  /\ task[t].stream \in {"none", "init"} => delivered = <<>>
            /\ delivered # <<>> => Positions(delivered, EvInit) = {1}
            /\ task[t].stream # "end" => Positions(delivered, EvDone) = {}
            /\ task[t].stream = "end" =>
                   /\ Positions(delivered, EvDone) = {Len(delivered)}
                   /\ delivered = <<EvInit>> \o Content(delivered) \o <<EvDone>>

C22_Witness ==
    \E t \in Tasks :
        /\ task[t].stream = "end" /\ task[t].op = "append"
        /\ Len(task[t].delivered) = 4

\* ------------------------------------------------------------------ C23
\* The done marker is next or delivered: the task has returned and every
\* event it sent has been delivered.
DoneOnlyAfterTheTask(t) ==
    task[t].stream \in {"done", "end"} =>
        /\ task[t].pc = "done"
        /\ task[t].queue = <<>>
        /\ Content(task[t].delivered) = task[t].events

StreamEnded(t) == task[t].stream = "end" /\ Last(task[t].delivered) = EvDone

\* C23: when every external call returns and the consumer keeps polling,
\* the stream of every request ends with the done marker, whatever the
\* outcome of the task; the marker comes only after the task has returned and
\* all its events are delivered.
C23_StreamEndsWithDone ==
    /\ [](\A t \in Tasks : DoneOnlyAfterTheTask(t))
    /\ \A t \in Tasks : (task[t].stream = "init") ~> StreamEnded(t)

\* Ended streams of a failed step, a failed load and a failed generation.
C23_Witness ==
    \E t \in Tasks :
        /\ StreamEnded(t)
        /\ \/ task[t].failedAt # None
           \/ task[t].loaded = "err"
           \/ task[t].returned = "Err"

\* ------------------------------------------------------------------ C24
\* What an execute_until does to the plan, from its inputs alone: the plan
\* it loaded, its target, and the index of the step that failed, if any.
LastAttempted(t) ==
    IF task[t].failedAt # None THEN unwrap(task[t].failedAt)
    ELSE Min(task[t].execute_until, LastIndex(InMemory(t)))
ExpectedAttempted(t) ==
    LET first == ResumeIndex(task[t].loadedCheckpoint)
    IN  [j \in 1 .. Max(0, LastAttempted(t) - first + 1) |-> first + j - 1]
ExpectedCheckpoint(t) ==
    IF task[t].failedAt # None THEN CheckpointBefore(unwrap(task[t].failedAt))
    ELSE FinalCheckpoint(t)
Succeeded(t) == Len(task[t].attempted) - (IF task[t].failedAt # None THEN 1 ELSE 0)

\* C24: with the consumer alive or gone, an execute_until that has returned
\* executed the steps, reached the checkpoint and made the saves that its
\* inputs determine, and the snapshot is its plan when the last save
\* succeeded; create and append save their plan once.  A failed send changes
\* none of it.
C24_ConsumerHasNoInfluence ==
    \A t \in Tasks : (task[t].pc = "done" /\ task[t].plan # None) =>
        /\ task[t].op = "execute" =>
               /\ task[t].attempted = ExpectedAttempted(t)
               /\ InMemory(t).checkpoint = ExpectedCheckpoint(t)
               /\ task[t].saveCalls = Succeeded(t)
               /\ (task[t].saveCalls > 0 /\ task[t].lastSaveOk) => store = task[t].plan
        /\ (task[t].op \in {"create", "append"} /\ task[t].returned = "Ok") =>
               /\ task[t].saveCalls = 1
               /\ task[t].lastSaveOk => store = task[t].plan

\* The consumer went away before the first event; the task skipped a step,
\* executed two and persisted the plan.
C24_Witness ==
    \E t \in Tasks :
        /\ RanToEnd(t) /\ task[t].stream = "dropped"
        /\ task[t].sendErrs = Len(task[t].events) /\ task[t].sendErrs >= 3
        /\ task[t].loadedCheckpoint # None /\ Len(task[t].attempted) >= 2
        /\ store = task[t].plan

\* ------------------------------------------------------------------ C25
TaskRunning(t) == task[t].pc \notin {"idle", "done"}

\* C25: the task does not wait for the consumer.  While the consumer has not
\* polled the stream the handler returned, every event sent is queued; and
\* when every external call returns, a spawned task returns, whether the
\* consumer polls, never polls or goes away.
C25_TaskRunsWithoutConsumer ==
    /\ [](\A t \in Tasks : task[t].stream = "init" =>
              task[t].queue = task[t].events /\ task[t].delivered = <<>>)
    /\ \A t \in Tasks : TaskRunning(t) ~> (task[t].pc = "done")

\* No event was drained, and the task executed the steps up to its target
\* and persisted the plan.
C25_Witness ==
    \E t \in Tasks :
        /\ RanToEnd(t) /\ task[t].stream = "init"
        /\ Len(task[t].attempted) >= 2 /\ Len(task[t].queue) >= 2
        /\ InMemory(t).checkpoint = Some(task[t].execute_until)
        /\ store = task[t].plan

\* ------------------------------------------------------------------ C26
InSeq(seq, x) == \E j \in DOMAIN seq : seq[j] = x

\* C26: no task of a plan id excludes another.  A save that succeeds puts
\* the saving task's plan in the store whatever the store holds by then:
\* nothing is compared and nothing is locked, the last save wins.
C26_LastSaveWins ==
    [][\A t \in Tasks :
          (/\ task[t].pc = "save_plan" /\ task'[t].pc # "save_plan"
           /\ task'[t].lastSaveOk) => store' = task[t].plan
      ]_vars

\* Two tasks loaded the same snapshot, both executed the same step with
\* success, every save succeeded, and the save of the one that went less far
\* came last: the persisted checkpoint is behind one persisted earlier.
C26_Witness ==
    \E t, u \in Tasks :
        /\ t # u /\ RanToEnd(t) /\ RanToEnd(u)
        /\ task[t].loadedCheckpoint = task[u].loadedCheckpoint
        /\ \E i \in 0 .. MaxSteps - 1 :
              /\ InSeq(task[t].attempted, i) /\ InSeq(task[u].attempted, i)
              /\ executions[i] >= 2
        /\ task[t].saveErrs = 0 /\ task[u].saveErrs = 0
        /\ store = task[u].plan
        /\ ResumeIndex(StoredPlan.checkpoint) < ResumeIndex(InMemory(t).checkpoint)

\* ------------------------------------------------------------------ C27
Returned(c) == storage.call[c].pc = "returned"

\* C27: a call of check_plan_storage_path that has returned gives the path
\* <index directory>/plans/<plan id>, the same for the same plan id in every
\* call, and the plans directory exists; and a plans directory that exists is
\* left as it is, with what it holds.
C27_PathAndDirectory ==
    /\ [](\A c \in Callers : Returned(c) =>
             /\ storage.call[c].path = <<IndexDir, "plans", storage.call[c].plan_id>>
             /\ storage.dir.plans = "dir"
             /\ \A d \in Callers :
                    (Returned(d) /\ storage.call[d].plan_id = storage.call[c].plan_id) =>
                        storage.call[d].path = storage.call[c].path)
    /\ [][storage.dir.plans = "dir" => storage.dir' = storage.dir]_vars

\* One call found no directory and created it, another found it; both were
\* asked for the same plan id.
C27_Witness ==
    \E c, d \in Callers :
        /\ Returned(c) /\ Returned(d)
        /\ storage.call[c].plan_id = storage.call[d].plan_id
        /\ storage.call[c].found = "absent" /\ storage.call[d].found = "present"

\* ------------------------------------------------------------------ C28
StepSucceeds(t) == task[t].pc = "execute_step" /\ task'[t].pc = "save_plan"

OfKind(events, kind) == SelectSeq(events, LAMBDA e : e[1] = kind)
Skips(t) == OfKind(task[t].events, "Already executed step")

\* The "already executed" events of execute_until(k) on n steps loaded with
\* checkpoint c: one for each index up to min(k, c, n - 1), none for None.
ExpectedSkips(t) ==
    LET c == task[t].loadedCheckpoint
        last == Min(Min(task[t].execute_until, unwrap_or_default(c)), LastIndex(InMemory(t)))
    IN  IF c = None THEN <<>>
        ELSE [j \in 1 .. last + 1 |-> EvAlreadyExecuted(j - 1, unwrap(c))]

\* C29: the "already executed" events of an execute_until that loaded its
\* plan are, in ascending order, one for each index i <= min(target,
\* checkpoint, len - 1), each naming i and the checkpoint; there is none when
\* the checkpoint is None; they are all sent before any step is executed, and
\* the step at the checkpoint is not executed again.
C29_AlreadyExecutedEvents ==
    \A t \in Running : task[t].loaded = "ok" =>
        /\ IsPrefix(Skips(t), ExpectedSkips(t))
        /\ (task[t].pc = "done" \/ task[t].attempted # <<>>) => Skips(t) = ExpectedSkips(t)
        /\ task[t].loadedCheckpoint # None =>
               \A i \in 0 .. unwrap(task[t].loadedCheckpoint) : ~InSeq(task[t].attempted, i)

C29_Witness ==
    \E t \in Running :
        /\ task[t].pc = "done" /\ task[t].loadedCheckpoint = Some(1)
        /\ task[t].execute_until = 2
        /\ Skips(t) = <<EvAlreadyExecuted(0, 1), EvAlreadyExecuted(1, 1)>>
        /\ task[t].attempted = <<2>>

\* ------------------------------------------------------------------ C30
Finisheds(t) == OfKind(task[t].events, "Finished executing until")
Erroreds(t) == OfKind(task[t].events, "Errored out while executing step")
\* Steps that returned success from execute_step in this call.
SucceededSoFar(t) ==
    Len(task[t].attempted) - (IF task[t].failedAt # None THEN 1 ELSE 0)
                           - (IF task[t].pc = "execute_step" THEN 1 ELSE 0)

\* C30: the events of an execute_until that loaded its plan are its "already
\* executed" events, then its "finished executing until" events with
\* consecutive increasing indices, then at most one "errored out" event, which
\* is last; there are as many "finished" events as steps that succeeded in
\* the call, and the event of a step is sent before its checkpoint is saved.
C30_EventShape ==
    \A t \in Running : task[t].loaded = "ok" =>
        /\ task[t].events = Skips(t) \o Finisheds(t) \o Erroreds(t)
        /\ Finisheds(t) = [j \in 1 .. Len(Finisheds(t)) |->
                              EvFinished(ResumeIndex(task[t].loadedCheckpoint) + j - 1)]
        /\ Erroreds(t) = IF task[t].failedAt = None THEN <<>>
                         ELSE <<EvErrored(unwrap(task[t].failedAt))>>
        /\ Len(Finisheds(t)) = SucceededSoFar(t)
        /\ task[t].pc = "save_plan" =>
               /\ Last(task[t].events) = EvFinished(task[t].idx)
               /\ task[t].saveCalls = Len(Finisheds(t)) - 1
        /\ task[t].pc # "save_plan" => task[t].saveCalls = Len(Finisheds(t))

C30_Witness ==
    \E t \in Running :
        /\ task[t].pc = "done"
        /\ task[t].events = <<EvAlreadyExecuted(0, 0), EvFinished(1), EvErrored(2)>>

\* ------------------------------------------------------------------ C31
\* C31: while step i is executed, its context is built only from steps at
\* indices up to the checkpoint, never from step i or a later step, and from
\* no step when the checkpoint is None.
C31_ContextFromCompletedSteps ==
    \A t \in Running : task[t].pc = "execute_step" =>
        /\ \A i \in task[t].context : AlreadyExecuted(InMemory(t).checkpoint, i)
        /\ \A i \in task[t].context : i < task[t].idx
        /\ InMemory(t).checkpoint = None => task[t].context = {}

\* ------------------------------------------------------------------ C32
OnEmptyPlan(t) ==
    task[t].op = "execute" /\ task[t].loaded = "ok" /\ InMemory(t).steps = <<>>

\* C32: an execute_until that loaded a plan without steps, whatever its
\* target, executes no step, leaves the checkpoint None, saves nothing, sends
\* no event, and returns without a failure.
C32_EmptyPlanTrivial ==
    \A t \in Tasks : OnEmptyPlan(t) =>
        /\ task[t].attempted = <<>>
        /\ InMemory(t).checkpoint = None
        /\ task[t].saveCalls = 0 /\ store = task[t].plan
        /\ task[t].events = <<>>
        /\ task[t].failedAt = None
        /\ task[t].pc \in {"loop", "done"}

C32_Witness ==
    \E t \in Tasks : OnEmptyPlan(t) /\ task[t].pc = "done" /\ task[t].execute_until >= 1

\* ------------------------------------------------------------------ C33
BeyondThePlan(t) ==
    /\ task[t].op = "execute" /\ task[t].loaded = "ok"
    /\ InMemory(t).steps # <<>>
    /\ task[t].execute_until >= Len(InMemory(t).steps)

\* C33: an execute_until whose target is at or past len(steps) of a plan with
\* steps executes existing steps only, the same as execute_until(len - 1),
\* and when no step failed it ends with the checkpoint on the last step.
C33_TargetBeyondPlan ==
    \A t \in Tasks : BeyondThePlan(t) =>
        /\ \A j \in DOMAIN task[t].attempted : task[t].attempted[j] <= LastIndex(InMemory(t))
        /\ task[t].pc = "done" =>
               task[t].attempted =
                   [j \in 1 .. Max(0, LastAttempted(t) - ResumeIndex(task[t].loadedCheckpoint) + 1)
                       |-> ResumeIndex(task[t].loadedCheckpoint) + j - 1]
        /\ RanToEnd(t) =>
               /\ InMemory(t).checkpoint = Some(LastIndex(InMemory(t)))
               /\ task[t].lastSaveOk => StoredPlan.checkpoint = Some(LastIndex(InMemory(t)))

C33_Witness ==
    \E t \in Tasks :
        /\ BeyondThePlan(t) /\ RanToEnd(t)
        /\ task[t].execute_until > Len(InMemory(t).steps)
        /\ Len(task[t].attempted) >= 2
        /\ store = task[t].plan

\* ------------------------------------------------------------------ C34
\* C34: after an append and an execute_until on the same plan id have both
\* returned, every save having succeeded, the snapshot holds the steps the
\* append persisted and a checkpoint that covers the steps the execute_until
\* completed.
C34_NoUpdateLost ==
    \A a, e \in Tasks :
        (/\ task[a].op = "append" /\ task[a].pc = "done" /\ task[a].returned = "Ok"
         /\ task[a].saveErrs = 0
         /\ RanToEnd(e) /\ task[e].saveErrs = 0) =>
            /\ IsPrefix(InMemory(a).steps, StoredPlan.steps)
            /\ ResumeIndex(StoredPlan.checkpoint) >= ResumeIndex(InMemory(e).checkpoint)

\* ------------------------------------------------------------------ C35
\* C35: of the calls of check_plan_storage_path that run while the plans
\* directory does not exist yet, none fails because another call created the
\* directory between its check and its create_dir.
C35_CheckThenCreateIsSafe ==
    \A c \in Callers : storage.call[c].error # "AlreadyExists"

\* ------------------------------------------------------------------ C36
\* plan.expect("plan to be present") has been passed.
PastPlanExpect(t) ==
    /\ task[t].op \in {"append", "execute", "diagnostics"}
    /\ task[t].pc \notin {"idle", "load"} /\ task[t].loaded # "err"
\* plan.checkpoint().expect("checkpoint to be present") has been passed.
PastCheckpointExpect(t) == task[t].op = "diagnostics" /\ task[t].externalCalls >= 1

\* C36: no forced unwrap of the orchestration fails.  A task past
\* plan.expect holds a loaded plan; a task past checkpoint.expect holds a
\* plan whose checkpoint is Some; and every message a task sent, failure
\* reports included, is an Ok value, so the expect of the answer stream never
\* meets an Err.
C36_NoFailingExpect ==
    \A t \in Tasks :
        /\ PastPlanExpect(t) => task[t].loaded = "ok" /\ task[t].plan # None
        /\ PastCheckpointExpect(t) => task[t].plan # None /\ InMemory(t).checkpoint # None
        /\ \A j \in DOMAIN task[t].events : ~IsErr(task[t].events[j])
        /\ task[t].stream # "panicked"

\* A failure report went through the answer stream to the end of the stream.
C36_Witness ==
    \E t \in Tasks :
        /\ task[t].stream = "end"
        /\ \/ task[t].delivered = <<EvInit, EvLoadFailed, EvDone>>
           \/ Content(task[t].delivered) = <<EvGeneratingPlan, EvFailedToGenerate>>

\* ------------------------------------------------------------------ C37
Merged == unwrap(thread.merged)
Paths(file_content_map) == {file_content_map[i].file_path : i \in DOMAIN file_content_map}
\* The entries of the previous context whose path the current one lacks, in order.
RECURSIVE MissingFrom(_, _)
MissingFrom(previous_map, current_paths) ==
    IF previous_map = <<>>
    THEN <<>>
    ELSE (IF Head(previous_map).file_path \in current_paths
          THEN <<>>
          ELSE <<Head(previous_map)>>) \o MissingFrom(Tail(previous_map), current_paths)

\* The merged map is the current entries followed by the previous entries
\* whose path is not in the current context; without a previous context the
\* context is unchanged.
C37_CurrentThenMissing ==
    thread.pc = "merged" =>
        IF thread.previous = None
        THEN Merged = thread.user_context
        ELSE Merged.file_content_map =
                 thread.user_context.file_content_map \o
                     MissingFrom(unwrap(thread.previous).file_content_map,
                                 Paths(thread.user_context.file_content_map))

\* No two entries of a merged map share a file_path.
C37_UniquePaths ==
    (thread.pc = "merged" /\ thread.previous # None) =>
        \A i, j \in DOMAIN Merged.file_content_map :
            Merged.file_content_map[i].file_path = Merged.file_content_map[j].file_path
                => i = j

\* The same, for contexts that have no repeated path themselves.
HasUniquePaths(file_content_map) == Cardinality(Paths(file_content_map)) = Len(file_content_map)
C37_UniquePathsOfUniqueInputs ==
    (/\ thread.pc = "merged" /\ thread.previous # None
     /\ HasUniquePaths(thread.user_context.file_content_map)
     /\ HasUniquePaths(unwrap(thread.previous).file_content_map)) =>
        HasUniquePaths(Merged.file_content_map)

\* C37: merge_from_previous returns the current entries in their order
\* followed by the previous entries whose file_path is not in the current
\* context, so that no two entries of the result share a file_path; with
\* previous = None the context is returned unchanged.
C37_MergeKeepsUnique == C37_CurrentThenMissing /\ C37_UniquePaths

====
